---- MODULE Spec2Model ----
(***************************************************************************)
(* Content-processing pipeline of the research assistant agent:            *)
(*   text chunker       (modules/text-chunker, src/unnamed/part_003)       *)
(*   relevance scorer   (modules/relevance-scorer.ts)                      *)
(*   web scraper        (modules/web-scraper.ts)                           *)
(*   pipeline           (content-processor/index.ts, processContent)       *)
(*                                                                         *)
(* Scores are fixed-point numbers in thousandths (1000 = 1.0).  Words of a *)
(* document are identified by their index; a document is described by its  *)
(* number of words, its paragraph layout, the words that end a sentence    *)
(* and the one line that looks like a section header.                      *)
(***************************************************************************)
EXTENDS Integers, Sequences, FiniteSets, TLC

VARIABLES
    cDoc,       \* chunker: the document handed to chunkText
    cOut,       \* chunker: what chunkText returned
    cPc,        \* chunker: "idle" | "ready" | "done"
    sChunks,    \* scorer: the chunks handed to scoreAndFilterChunks
    sQuery,     \* scorer: the query, as its words
    sReply,     \* scorer: what the external scoring call does for this request
    sOut,       \* scorer: what scoreAndFilterChunks returned
    sPc,        \* scorer: "idle" | "ready" | "done"
    wUrls,      \* scraper: the urls handed to scrapeMultipleUrls
    wPc,        \* scraper: where scrapeMultipleUrls stands
    wMgr,       \* scraper: the SingleBrowserManager of this call and its browser
    wPool,      \* scraper: number of browsers held by the global BrowserPool
    wTask,      \* scraper: per url, the state of its scrape promise
    wResults,   \* scraper: per url, the value its scrape promise settled with
    wRet,       \* scraper: what scrapeMultipleUrls returned
    wPath,      \* scraper: the strategies this call entered and its closeAll calls
    pUrls,      \* pipeline: the urls handed to processContent
    pQuery,     \* pipeline: the query handed to processContent
    pPc,        \* pipeline: where processContent stands
    pFault,     \* pipeline: the document whose cleaning or chunking throws, if any
    pPieces,    \* pipeline: processingResults, one per successful scrape
    pChunks,    \* pipeline: allChunks, the chunks of every processed document
    pOut,       \* pipeline: what processContent returned
    mCalls,     \* manager: number of closeAll calls made so far
    mRaised,    \* manager: whether some closeAll call raised
    mPrev,      \* manager: the manager as the last closeAll call found it
    mPost,      \* manager: the manager as the last closeAll call left it
    streamingCallbacks, \* agent: the process-wide callbacks slot (0: undefined)
    callbacks,  \* agent: per request, the callbacks its processContent run read
    qPc,        \* agent: per request, where researchWithStreaming stands
    delivered,  \* agent: the callback invocations made so far
    invoked,    \* scorer: per claude.invoke call made, the number of chunks in its prompt
    vChunks,    \* chunker: the chunks handed to validateAndOptimizeChunks
    vOut,       \* chunker: what validateAndOptimizeChunks returned
    vPc,        \* chunker: "idle" | "ready" | "done" of that call
    xDom,       \* scraper: per content selector, the length of the text it finds on the page
    xOut,       \* scraper: what extractMainContent returned for that page
    xPc         \* scraper: "idle" | "ready" | "done" of that call

chunkVars == <<cDoc, cOut, cPc>>
scoreVars == <<sChunks, sQuery, sReply, sOut, sPc>>
scrapeVars == <<wUrls, wPc, wMgr, wPool, wTask, wResults, wRet, wPath>>
pipeVars == <<pUrls, pQuery, pPc, pFault, pPieces, pChunks, pOut>>
mgrVars == <<mCalls, mRaised, mPrev, mPost>>
streamVars == <<streamingCallbacks, callbacks, qPc, delivered>>
callVars == <<invoked>>
validateVars == <<vChunks, vOut, vPc>>
extractVars == <<xDom, xOut, xPc>>
restVars == <<mgrVars, streamVars, callVars, validateVars, extractVars>>
exceptMgrVars == <<streamVars, callVars, validateVars, extractVars>>
exceptStreamVars == <<mgrVars, callVars, validateVars, extractVars>>
exceptCallVars == <<mgrVars, streamVars, validateVars, extractVars>>

Min(a, b) == IF a <= b THEN a ELSE b
Max(a, b) == IF a >= b THEN a ELSE b
Abs(a) == IF a >= 0 THEN a ELSE -a

RECURSIVE SumSeq(_)
SumSeq(s) == IF s = <<>> THEN 0 ELSE Head(s) + SumSeq(Tail(s))

(***************************************************************************)
(* TEXT CHUNKER                                                            *)
(***************************************************************************)

\* CHUNKING_CONFIG
targetChunkSize == 800
minChunkSize == 300
maxChunkSize == 1200
overlapSize == 100

\* Bounds of the documents explored.
MaxSizeSteps == 52      \* document sizes are multiples of SizeStep, +-1
SizeStep == 50
WordChars == 5          \* every word of a model document has this many characters

NoHeader == 0 - 1

\* A document: nWords words; paragraphs of paraWords words each (0: a single
\* paragraph); every sentEvery-th word ends with '.', '!' or '?' (0: none);
\* the line that looks like a section header starts at word `header`.
DocSizes ==
    { n \in { s * SizeStep + d : s \in 0..MaxSizeSteps, d \in {0 - 1, 0, 1} } : n >= 0 }

Documents ==
    { [nWords |-> n, paraWords |-> p, sentEvery |-> s, header |-> h] :
        n \in DocSizes, p \in {0, 130}, s \in {0, 7}, h \in {NoHeader, 820} }

\* text.split(/\s+/).length : the empty (trimmed) text still splits into [''].
WordsLength(doc) == Max(doc.nWords, 1)

\* words.slice(0, i).join(' ').length
JoinLength(i) == IF i <= 0 THEN 0 ELSE i * (WordChars + 1) - 1

\* Number of paragraphs of the document and the word count of paragraph k.
ParagraphCount(doc) ==
    IF doc.nWords = 0 THEN 0
    ELSE IF doc.paraWords = 0 THEN 1
    ELSE (doc.nWords + doc.paraWords - 1) \div doc.paraWords

ParagraphWords(doc, k) ==
    IF doc.paraWords = 0 THEN doc.nWords
    ELSE Min(doc.paraWords, doc.nWords - (k - 1) * doc.paraWords)

\* preprocessTextForChunking: paragraph k spans [start, end) in characters;
\* currentIndex advances by the paragraph's length plus the 2-character separator.
ParagraphEnd(doc, k) ==
    LET perPara == doc.paraWords * (WordChars + 1) - 1
    IN  (k - 1) * (perPara + 2) + JoinLength(ParagraphWords(doc, k))

ParagraphEnds(doc) == { ParagraphEnd(doc, k) : k \in 1..ParagraphCount(doc) }

\* preprocessTextForChunking: the start (processedText.indexOf(line)) of each
\* line that looks like a header.  In the processed text every paragraph break
\* takes two characters where join(' ') takes one.
SectionStarts(doc) ==
    IF doc.header = NoHeader \/ doc.header >= doc.nWords THEN {}
    ELSE LET breaks == IF doc.paraWords = 0 THEN 0 ELSE doc.header \div doc.paraWords
         IN  { doc.header * (WordChars + 1) + breaks }

\* /[.!?]$/.test(words[i - 1])
EndsSentence(doc, i) ==
    /\ doc.sentEvery > 0
    /\ i >= 1
    /\ i <= doc.nWords
    /\ (i % doc.sentEvery = 0 \/ i = doc.nWords)

SetMax(S) == CHOOSE x \in S : \A y \in S : y <= x
SetMin(S) == CHOOSE x \in S : \A y \in S : x <= y

\* Strategy 1: the first section within 200 characters of the target, converted
\* back to a word index, taken when it lies beyond currentPosition + minChunkSize.
SectionBoundary(doc, currentPosition, targetPosition) ==
    LET cci == JoinLength(targetPosition)
        near == { s \in SectionStarts(doc) : Abs(s - cci) < 200 }
    IN  IF near = {} THEN targetPosition
        ELSE LET start == SetMin(near)
                 idxs == { i \in 0..(WordsLength(doc) - 1) : JoinLength(i + 1) >= start }
                 sectionWordIndex == IF idxs = {} THEN 0 - 1 ELSE SetMin(idxs)
             IN  IF sectionWordIndex > currentPosition + minChunkSize
                 THEN sectionWordIndex ELSE targetPosition

\* Strategy 2: the last word index in the window whose character offset is
\* within 50 characters of a paragraph end.
ParagraphBoundary(doc, currentPosition, targetPosition) ==
    LET searchStart == Max(currentPosition + minChunkSize, targetPosition - 100)
        searchEnd == Min(targetPosition + 100, WordsLength(doc))
        ends == ParagraphEnds(doc)
        hits == { i \in searchStart..searchEnd :
                    \E e \in ends : Abs(e - JoinLength(i)) < 50 }
    IN  IF hits = {} THEN targetPosition ELSE SetMax(hits)

\* Strategy 3: the last word in the window that ends a sentence.
SentenceBoundary(doc, currentPosition, targetPosition) ==
    LET searchStart == Max(currentPosition + minChunkSize, targetPosition - 50)
        searchEnd == Min(targetPosition + 50, WordsLength(doc))
        hits == { i \in searchStart..searchEnd : EndsSentence(doc, i) }
    IN  IF hits = {} THEN targetPosition ELSE SetMax(hits)

\* The size clamp at the end of one loop iteration.
ClampBoundary(doc, currentPosition, bestBoundary) ==
    IF bestBoundary - currentPosition < minChunkSize
    THEN Min(currentPosition + minChunkSize, WordsLength(doc))
    ELSE IF bestBoundary - currentPosition > maxChunkSize
         THEN currentPosition + maxChunkSize
         ELSE bestBoundary

BestBoundary(doc, currentPosition, targetPosition) ==
    LET b1 == SectionBoundary(doc, currentPosition, targetPosition)
        b2 == IF b1 = targetPosition
              THEN ParagraphBoundary(doc, currentPosition, targetPosition) ELSE b1
        b3 == IF b2 = targetPosition
              THEN SentenceBoundary(doc, currentPosition, targetPosition) ELSE b2
    IN  ClampBoundary(doc, currentPosition, b3)

\* The loop of findOptimalChunkBoundaries: it stops, without pushing a
\* boundary, as soon as the target position reaches the end of the words.
RECURSIVE BoundaryLoop(_, _, _)
BoundaryLoop(doc, currentPosition, boundaries) ==
    LET targetPosition == Min(currentPosition + targetChunkSize, WordsLength(doc))
    IN  IF currentPosition >= WordsLength(doc) \/ targetPosition >= WordsLength(doc)
        THEN boundaries
        ELSE LET best == BestBoundary(doc, currentPosition, targetPosition)
             IN  BoundaryLoop(doc, best, Append(boundaries, best))

findOptimalChunkBoundaries(doc) == BoundaryLoop(doc, 0, <<0>>)

\* One chunk of createChunksWithOverlap, for the boundary pair i, i+1 (1-based).
RawChunk(doc, boundaries, i) ==
    LET startBoundary == boundaries[i]
        endBoundary == boundaries[i + 1]
        first == (i = 1)
        last == (i = Len(boundaries) - 1)
        chunkStart == IF ~first /\ overlapSize > 0
                      THEN Max(0, startBoundary - overlapSize) ELSE startBoundary
        chunkEnd == IF ~last /\ overlapSize > 0
                    THEN Min(WordsLength(doc), endBoundary + overlapSize) ELSE endBoundary
    IN  [ position |-> i,
          wordCount |-> chunkEnd - chunkStart,
          startIndex |-> chunkStart,
          endIndex |-> chunkEnd,
          hasOverlap |-> (~first /\ overlapSize > 0) \/ (~last /\ overlapSize > 0),
          chunkingMethod |-> IF EndsSentence(doc, chunkEnd)
                             THEN "sentence_boundary" ELSE "word_boundary" ]

\* createChunksWithOverlap: one chunk per adjacent boundary pair; chunks whose
\* content is empty are skipped.
RECURSIVE RawChunksFrom(_, _, _)
RawChunksFrom(doc, boundaries, i) ==
    IF i > Len(boundaries) - 1 THEN <<>>
    ELSE LET c == RawChunk(doc, boundaries, i)
             rest == RawChunksFrom(doc, boundaries, i + 1)
         IN  IF c.wordCount <= 0 \/ doc.nWords = 0 THEN rest ELSE <<c>> \o rest

createChunksWithOverlap(doc, boundaries) == RawChunksFrom(doc, boundaries, 1)

\* The pieces a chunk larger than maxChunkSize is cut into: slices of
\* floor(maxChunkSize / 2) words, numbered after the chunks already emitted.
RECURSIVE SplitPieces(_, _, _)
SplitPieces(chunk, j, emitted) ==
    LET splitSize == maxChunkSize \div 2
        n == Min(splitSize, chunk.wordCount - j)
    IN  IF j >= chunk.wordCount THEN <<>>
        ELSE << [ position |-> emitted + 1,
                  wordCount |-> n,
                  startIndex |-> chunk.startIndex + j,
                  endIndex |-> chunk.startIndex + j + n,
                  hasOverlap |-> j > 0,
                  chunkingMethod |-> "split_large_chunk" ] >>
             \o SplitPieces(chunk, j + splitSize, emitted + 1)

MergedChunk(chunk, nextChunk, emitted) ==
    [ position |-> emitted + 1,
      wordCount |-> chunk.wordCount + nextChunk.wordCount,
      startIndex |-> chunk.startIndex,
      endIndex |-> nextChunk.endIndex,
      hasOverlap |-> chunk.hasOverlap \/ nextChunk.hasOverlap,
      chunkingMethod |-> "merged_chunks" ]

\* The loop of validateAndOptimizeChunks from chunk i (1-based) on.
RECURSIVE OptimizeFrom(_, _, _)
OptimizeFrom(chunks, i, optimized) ==
    IF i > Len(chunks) THEN optimized
    ELSE LET chunk == chunks[i]
             small == chunk.wordCount < minChunkSize /\ i < Len(chunks)
             merges == small /\
                       chunk.wordCount + chunks[i + 1].wordCount <= maxChunkSize
         IN  IF merges
             THEN OptimizeFrom(chunks, i + 2,
                     Append(optimized, MergedChunk(chunk, chunks[i + 1], Len(optimized))))
             ELSE IF chunk.wordCount > maxChunkSize
                  THEN OptimizeFrom(chunks, i + 1,
                          optimized \o SplitPieces(chunk, 0, Len(optimized)))
                  ELSE OptimizeFrom(chunks, i + 1,
                          Append(optimized, [chunk EXCEPT !.position = Len(optimized) + 1]))

\* Mutant: every chunk above targetChunkSize is cut after targetChunkSize words.
RECURSIVE CutAtTarget(_, _)
CutAtTarget(chunks, i) ==
    IF i > Len(chunks) THEN <<>>
    ELSE IF chunks[i].wordCount > targetChunkSize
         THEN << [chunks[i] EXCEPT !.wordCount = targetChunkSize],
                 [chunks[i] EXCEPT !.wordCount = @ - targetChunkSize] >>
              \o CutAtTarget(chunks, i + 1)
         ELSE <<chunks[i]>> \o CutAtTarget(chunks, i + 1)

validateAndOptimizeChunks_CutAtTarget(chunks) == CutAtTarget(chunks, 1)

validateAndOptimizeChunks(chunks) == OptimizeFrom(chunks, 1, <<>>)

\* chunkText: boundaries, chunks with overlap, validation.
chunkText(doc) ==
    validateAndOptimizeChunks(
        createChunksWithOverlap(doc, findOptimalChunkBoundaries(doc)))

(***************************************************************************)
(* RELEVANCE SCORER                                                        *)
(***************************************************************************)

\* RELEVANCE_CONFIG.thresholds and .chunkLimits
minimumRelevance == 400
minimumQuality == 300
minimumFinalScore == 500
limitSimple == 3
limitModerate == 4
limitComplex == 5

\* Math.max / Math.min / >= on JavaScript numbers: NaN is contagious and
\* compares false with everything.  Proper scores are never negative.
NaN == 0 - 999999
JsMax(a, b) == IF a = NaN \/ b = NaN THEN NaN ELSE Max(a, b)
JsMin(a, b) == IF a = NaN \/ b = NaN THEN NaN ELSE Min(a, b)
JsGe(a, b) == a # NaN /\ b # NaN /\ a >= b

\* ---- query analysis ----

\* The characters of each word the model queries are made of.
WordLength ==
    [ w \in {"what", "is", "http", "advanced", "react", "state", "management",
             "patterns", "redux", "hooks", "props", "context",
             "internationalization"} |->
        CASE w = "what" -> 4 [] w = "is" -> 2 [] w = "http" -> 4
          [] w = "advanced" -> 8 [] w = "react" -> 5 [] w = "state" -> 5
          [] w = "management" -> 10 [] w = "patterns" -> 8 [] w = "redux" -> 5
          [] w = "hooks" -> 5 [] w = "props" -> 5 [] w = "context" -> 7
          [] w = "internationalization" -> 20 ]

stopWords == {"what", "is", "how", "to", "the", "a", "an", "and", "or", "but",
              "in", "on", "at", "for", "with", "by"}

\* /advanced|complex|detailed|comprehensive/i
complexityMarkers == {"advanced", "complex", "detailed", "comprehensive"}

\* The queries explored, as their words separated by single spaces.
Queries ==
    { <<"what", "is", "http">>,
      <<"advanced", "react">>,
      <<"react", "state", "management", "patterns">>,
      <<"advanced", "react", "state", "management">>,
      <<"react", "redux", "hooks", "state", "props", "context">>,
      <<"internationalization", "internationalization",
        "internationalization", "internationalization">> }

\* query.length
QueryLength(query) ==
    IF query = <<>> THEN 0
    ELSE SumSeq([i \in 1..Len(query) |-> WordLength[query[i]]]) + (Len(query) - 1)

\* extractKeyTermsFromQuery: words longer than 2 characters that are no stop
\* word, without duplicates.
extractKeyTermsFromQuery(query) ==
    { query[i] : i \in { j \in 1..Len(query) :
                          WordLength[query[j]] > 2 /\ query[j] \notin stopWords } }

HasComplexityMarker(query) == \E i \in 1..Len(query) : query[i] \in complexityMarkers

\* assessQueryComplexity: simple is tested first.
assessQueryComplexity(query, keyTerms) ==
    IF QueryLength(query) < 30 /\ Cardinality(keyTerms) <= 2 THEN "simple"
    ELSE IF QueryLength(query) > 80 \/ Cardinality(keyTerms) > 5
            \/ HasComplexityMarker(query) THEN "complex"
    ELSE "moderate"

analyzeSearchQuery(query) ==
    LET keyTerms == extractKeyTermsFromQuery(query)
    IN  [ keyTerms |-> keyTerms, complexity |-> assessQueryComplexity(query, keyTerms) ]

\* ---- scoring ----

\* A score field of one entry of the scorer's JSON answer: a number (in
\* thousandths), absent, or a value that is no number (such as "high").
RawNumber(v) == [t |-> "number", v |-> v]
RawUndefined == [t |-> "undefined", v |-> 0]
RawNonNumeric == [t |-> "string", v |-> 0]

\* Math.max(0, Math.min(1, raw || 0))
NormalizeScore(raw) ==
    IF raw.t = "undefined" THEN 0
    ELSE IF raw.t = "string" THEN JsMax(0, JsMin(1000, NaN))
    ELSE JsMax(0, JsMin(1000, raw.v))

\* validateAndNormalizeScores
validateAndNormalizeScores(scores) ==
    [ i \in 1..Len(scores) |->
        [ chunkIndex |-> scores[i].chunkIndex,
          relevanceScore |-> NormalizeScore(scores[i].relevanceScore),
          qualityScore |-> NormalizeScore(scores[i].qualityScore),
          fallback |-> FALSE ] ]

\* createFallbackScores
createFallbackScores(chunks) ==
    [ i \in 1..Len(chunks) |->
        [ chunkIndex |-> i, relevanceScore |-> 500, qualityScore |-> 500,
          fallback |-> TRUE ] ]

\* claude.invoke followed by parseScoringResponse: the parsed entries, or an
\* exception (the call raises, no JSON array in the answer, JSON.parse fails).
InvokeAndParse(reply) ==
    IF reply.outcome = "ok"
    THEN [threw |-> FALSE, scores |-> reply.scores]
    ELSE [threw |-> TRUE, scores |-> <<>>]

\* Mutant: the scoring call outside the try block.
batchScoreChunksWithClaude_NoCatch(chunks, reply) ==
    LET parsed == InvokeAndParse(reply)
    IN  IF parsed.threw THEN parsed
        ELSE [threw |-> FALSE, scores |-> validateAndNormalizeScores(parsed.scores)]

\* batchScoreChunksWithClaude: the call, the parsing and the normalisation sit
\* in one try block whose handler returns the fallback scores.
batchScoreChunksWithClaude(chunks, reply) ==
    LET parsed == InvokeAndParse(reply)
    IN  IF parsed.threw
        THEN [threw |-> FALSE, scores |-> createFallbackScores(chunks)]
        ELSE [threw |-> FALSE, scores |-> validateAndNormalizeScores(parsed.scores)]

\* scoreChunksForRelevance: no call at all for an empty chunk list.
scoreChunksForRelevance(chunks, reply) ==
    IF Len(chunks) = 0 THEN [threw |-> FALSE, scores |-> <<>>]
    ELSE batchScoreChunksWithClaude(chunks, reply)

\* The claude.invoke calls one scoreChunksForRelevance makes, each as the
\* number of chunks createBatchScoringPrompt put into its prompt: none for an
\* empty list, otherwise one call carrying every chunk.
InvokedPrompts(chunks) ==
    IF Len(chunks) = 0 THEN <<>> ELSE <<Len(chunks)>>

\* combineChunksWithScores: the first score whose chunkIndex is the chunk's
\* 1-based index, or the default 0.3 / 0.3.
ScoreFor(scores, index) ==
    LET hits == { k \in 1..Len(scores) : scores[k].chunkIndex = index }
    IN  IF hits = {}
        THEN [ chunkIndex |-> index, relevanceScore |-> 300, qualityScore |-> 300,
               fallback |-> FALSE ]
        ELSE scores[SetMin(hits)]

combineChunksWithScores(chunks, scores) ==
    [ i \in 1..Len(chunks) |-> [ chunk |-> chunks[i], score |-> ScoreFor(scores, i) ] ]

\* calculateSourceDiversityScore: counted over all chunks handed to the scorer.
\* Mutant: the chunk itself is not taken out of the count.
calculateSourceDiversityScore_CountsItself(chunk, allChunks) ==
    LET sameSourceCount ==
            Cardinality({ k \in 1..Len(allChunks) : allChunks[k].chunk.url = chunk.url })
    IN  Max(300, 1000 - sameSourceCount * 200)

calculateSourceDiversityScore(chunk, allChunks) ==
    LET sameSourceCount ==
            Cardinality({ k \in 1..Len(allChunks) : allChunks[k].chunk.url = chunk.url })
    IN  Max(300, 1000 - (sameSourceCount - 1) * 200)

\* calculatePositionScore
calculatePositionScore(chunk) == Max(300, 1000 - (chunk.position - 1) * 100)

\* calculateWeightedFinalScore: weights 0.5 / 0.3 / 0.1 / 0.1, then the clamp.
calculateWeightedFinalScore(relevanceScore, qualityScore, diversityScore, positionScore) ==
    LET finalScore ==
            IF relevanceScore = NaN \/ qualityScore = NaN THEN NaN
            ELSE (relevanceScore * 5 + qualityScore * 3 + diversityScore + positionScore)
                 \div 10
    IN  JsMin(1000, JsMax(0, finalScore))

\* calculateFinalScoresForChunks
calculateFinalScoresForChunks(chunksWithScores) ==
    [ i \in 1..Len(chunksWithScores) |->
        LET chunk == chunksWithScores[i].chunk
            score == chunksWithScores[i].score
            diversityScore == calculateSourceDiversityScore(chunk, chunksWithScores)
            positionScore == calculatePositionScore(chunk)
        IN  [ chunk |-> chunk,
              relevanceScore |-> score.relevanceScore,
              qualityScore |-> score.qualityScore,
              diversityScore |-> diversityScore,
              positionScore |-> positionScore,
              finalScore |-> calculateWeightedFinalScore(score.relevanceScore,
                                 score.qualityScore, diversityScore, positionScore),
              fallback |-> score.fallback,
              rank |-> 0 ] ]

\* The three pass conditions of applyQualityFiltering.
PassesThresholds(c) ==
    /\ JsGe(c.relevanceScore, minimumRelevance)
    /\ JsGe(c.qualityScore, minimumQuality)
    /\ JsGe(c.finalScore, minimumFinalScore)

\* Mutant: the finalScore threshold forgotten.
PassesTwoThresholds(c) ==
    /\ JsGe(c.relevanceScore, minimumRelevance)
    /\ JsGe(c.qualityScore, minimumQuality)

applyQualityFiltering_NoFinalThreshold(rankedChunks) ==
    SelectSeq(rankedChunks, PassesTwoThresholds)

\* Mutant: the best chunk is kept when the filter would leave nothing.
applyQualityFiltering_NeverEmpty(rankedChunks) ==
    IF SelectSeq(rankedChunks, PassesThresholds) = <<>> /\ rankedChunks # <<>>
    THEN <<rankedChunks[1]>>
    ELSE SelectSeq(rankedChunks, PassesThresholds)

\* applyQualityFiltering: Array.filter keeps the order.
applyQualityFiltering(rankedChunks) == SelectSeq(rankedChunks, PassesThresholds)

\* Mutant: an unstable sort (equal scores end up in reverse input order).
RECURSIVE InsertByScore_Unstable(_, _)
InsertByScore_Unstable(sorted, c) ==
    IF sorted = <<>> THEN <<c>>
    ELSE IF Head(sorted).finalScore > c.finalScore
         THEN <<Head(sorted)>> \o InsertByScore_Unstable(Tail(sorted), c)
         ELSE <<c>> \o sorted

\* Array.sort with (a, b) => b.finalScore - a.finalScore: a stable sort,
\* descending by finalScore (insertion behind the elements that are not smaller).
RECURSIVE InsertByScore(_, _)
InsertByScore(sorted, c) ==
    IF sorted = <<>> THEN <<c>>
    ELSE IF Head(sorted).finalScore >= c.finalScore
         THEN <<Head(sorted)>> \o InsertByScore(Tail(sorted), c)
         ELSE <<c>> \o sorted

RECURSIVE SortByScore(_)
SortByScore(chunks) ==
    IF chunks = <<>> THEN <<>>
    ELSE InsertByScore(SortByScore(SubSeq(chunks, 1, Len(chunks) - 1)),
                       chunks[Len(chunks)])

\* Mutant: the array index taken as the rank.
applySortingAndRanking_ZeroBased(chunks) ==
    LET sorted == SortByScore(chunks)
    IN  [ i \in 1..Len(sorted) |-> [sorted[i] EXCEPT !.rank = i - 1] ]

\* applySortingAndRanking
applySortingAndRanking(chunks) ==
    LET sorted == SortByScore(chunks)
    IN  [ i \in 1..Len(sorted) |-> [sorted[i] EXCEPT !.rank = i] ]

ChunkLimit(complexity) ==
    CASE complexity = "simple" -> limitSimple
      [] complexity = "moderate" -> limitModerate
      [] complexity = "complex" -> limitComplex

\* Mutants: the limit off by one, either way.
applyChunkLimiting_OneMore(rankedChunks, complexity) ==
    SubSeq(rankedChunks, 1, Min(Len(rankedChunks), ChunkLimit(complexity) + 1))

applyChunkLimiting_OneLess(rankedChunks, complexity) ==
    SubSeq(rankedChunks, 1, Min(Len(rankedChunks), ChunkLimit(complexity) - 1))

\* applyChunkLimiting: slice(0, limit)
applyChunkLimiting(rankedChunks, complexity) ==
    SubSeq(rankedChunks, 1, Min(Len(rankedChunks), ChunkLimit(complexity)))

\* filterAndRankChunks
filterAndRankChunks(chunks, scores, queryAnalysis) ==
    applyChunkLimiting(
        applySortingAndRanking(
            applyQualityFiltering(
                calculateFinalScoresForChunks(combineChunksWithScores(chunks, scores)))),
        queryAnalysis.complexity)

\* scoreAndFilterChunks: an exception of any step is rethrown to the caller.
\* `scored` keeps the chunks as they leave calculateFinalScoresForChunks,
\* before filtering.
scoreAndFilterChunks(chunks, query, reply) ==
    LET queryAnalysis == analyzeSearchQuery(query)
        relevance == scoreChunksForRelevance(chunks, reply)
        rankedChunks == filterAndRankChunks(chunks, relevance.scores, queryAnalysis)
    IN  IF relevance.threw
        THEN [ threw |-> TRUE, scored |-> <<>>, rankedChunks |-> <<>>,
               filtering |-> [ totalChunks |-> 0, filteredChunks |-> 0,
                               averageRelevance |-> 0 ],
               queryAnalysis |-> queryAnalysis ]
        ELSE [ threw |-> FALSE,
               scored |-> calculateFinalScoresForChunks(
                              combineChunksWithScores(chunks, relevance.scores)),
               rankedChunks |-> rankedChunks,
               filtering |->
                   [ totalChunks |-> Len(chunks),
                     filteredChunks |-> Len(rankedChunks),
                     averageRelevance |->
                         IF Len(rankedChunks) > 0
                         THEN SumSeq([i \in 1..Len(rankedChunks) |->
                                  rankedChunks[i].relevanceScore]) \div Len(rankedChunks)
                         ELSE 0 ],
               queryAnalysis |-> queryAnalysis ]

\* ---- inputs of the scorer ----

MaxChunks == 6          \* chunks handed to one scoreAndFilterChunks call

\* The chunk lists explored: the flattened chunks of one, two or n documents,
\* in document order, each with its 1-based position in its document.
RECURSIVE LayoutChunks(_, _)
LayoutChunks(counts, doc) ==
    IF doc > Len(counts) THEN <<>>
    ELSE [ j \in 1..counts[doc] |-> [url |-> doc, position |-> j] ]
         \o LayoutChunks(counts, doc + 1)

WithIds(chunks) ==
    [ i \in 1..Len(chunks) |->
        [id |-> i, url |-> chunks[i].url, position |-> chunks[i].position] ]

ChunkLists ==
    { WithIds(LayoutChunks(counts, 1)) :
        counts \in UNION { { <<n>>, <<n - (n \div 2), n \div 2>>, [d \in 1..n |-> 1] } :
                           n \in 0..MaxChunks } }

\* What one entry of the scorer's answer may carry as its two scores.
EntryScores ==
    { [relevanceScore |-> RawNumber(900), qualityScore |-> RawNumber(900)],
      [relevanceScore |-> RawNumber(500), qualityScore |-> RawNumber(500)],
      [relevanceScore |-> RawNumber(1500), qualityScore |-> RawUndefined],
      [relevanceScore |-> RawNumber(0 - 500), qualityScore |-> RawNonNumeric] }

\* The answers explored for n chunks: the call raises, the answer cannot be
\* parsed, or it parses to one entry per chunk (chunkIndex 1..n), possibly with
\* the entry of the last chunk missing.
Replies(n) ==
    { [outcome |-> "raise", scores |-> <<>>],
      [outcome |-> "unparsable", scores |-> <<>>] }
    \cup
    { [outcome |-> "ok",
       scores |-> [ i \in 1..m |->
                      [ chunkIndex |-> i,
                        relevanceScore |-> es[i].relevanceScore,
                        qualityScore |-> es[i].qualityScore ] ] ] :
        m \in { k \in {n - 1, n} : k >= 0 }, es \in [1..n -> EntryScores] }

(***************************************************************************)
(* WEB SCRAPER                                                             *)
(***************************************************************************)

maxPages == 5               \* SingleBrowserManager: pages pre-created at most
singleBrowserLimit == 5     \* scrapeMultipleUrls: urls.length <= 5
maxBrowsers == 3            \* BrowserPool

MaxUrls == 6                \* urls handed to one scrapeMultipleUrls call

\* The i-th url of the batch (all urls of a batch differ).
UrlAt(i) == 1000 + i

minimumLength == 100        \* CONTENT_QUALITY: characters a selector's text must exceed

\* A text as the scraper and the cleaner see it: its words, how many of them
\* sit in boilerplate sentences, and the sentence length.
EmptyContent == [nWords |-> 0, boiler |-> 0, sentEvery |-> 0]

\* The page served at each url.
PageAt(url) ==
    CASE url = UrlAt(1) -> [nWords |-> 970, boiler |-> 120, sentEvery |-> 7]
      [] url = UrlAt(2) -> [nWords |-> 540, boiler |-> 40, sentEvery |-> 7]
      [] url = UrlAt(3) -> [nWords |-> 1700, boiler |-> 0, sentEvery |-> 7]
      [] url = UrlAt(4) -> [nWords |-> 2700, boiler |-> 200, sentEvery |-> 7]
      [] url = UrlAt(5) -> [nWords |-> 12, boiler |-> 12, sentEvery |-> 7]
      [] OTHER -> [nWords |-> 1350, boiler |-> 50, sentEvery |-> 7]

\* extractMainContent: the text of the first selector whose text is
\* substantial, otherwise the empty string; the scraper's cleanContent then
\* collapses every run of whitespace, newlines included, to one space.
extractMainContent(page) ==
    IF JoinLength(page.nWords) > minimumLength THEN page ELSE EmptyContent

\* CONTENT_SELECTORS, in the order extractMainContent tries them.
CONTENT_SELECTORS ==
    << "article", "main", ".content", ".post-content", ".entry-content",
       ".article-content", "[role=main]", "body" >>

NoText == [selector |-> "", length |-> 0]

\* The loop of extractMainContent over the selectors from the k-th on: dom[k]
\* is the length of the trimmed text findContentWithSelector returns for
\* selector k (0 when no element matches or the lookup fails);
\* isContentSubstantial is applied to every selector alike.
RECURSIVE FirstSubstantial(_, _)
FirstSubstantial(dom, k) ==
    IF k > Len(CONTENT_SELECTORS) THEN NoText
    ELSE IF dom[k] > minimumLength
         THEN [selector |-> CONTENT_SELECTORS[k], length |-> dom[k]]
         ELSE FirstSubstantial(dom, k + 1)

\* Mutant: the body text is returned whatever its length.
extractMainContentText_BodyUngated(dom) ==
    IF FirstSubstantial(dom, 1) = NoText /\ dom[Len(CONTENT_SELECTORS)] > 0
    THEN [selector |-> "body", length |-> dom[Len(CONTENT_SELECTORS)]]
    ELSE FirstSubstantial(dom, 1)

extractMainContentText(dom) == FirstSubstantial(dom, 1)

NoResult == [url |-> 0, success |-> FALSE, content |-> EmptyContent, error |-> "",
             scrapingTime |-> "none"]

\* createSuccessResult / createErrorResult
createSuccessResult(url, content, scrapingTime) ==
    [url |-> url, success |-> TRUE, content |-> content, error |-> "",
     scrapingTime |-> scrapingTime]

createErrorResult(url, message, scrapingTime) ==
    [url |-> url, success |-> FALSE, content |-> EmptyContent, error |-> message,
     scrapingTime |-> scrapingTime]

NoManager == [browser |-> "null", proc |-> "none", pages |-> 0, closeError |-> FALSE]

\* Mutant: closeAll that leaves the browser alone.
closeAll_Skip(mgr, closeOk) == mgr

\* Mutant: closeAll closes the pages and leaves the browser running.
closeAll_OnlyPages(mgr, closeOk) ==
    IF mgr.browser = "set" /\ mgr.proc = "running"
    THEN [mgr EXCEPT !.pages = 0]
    ELSE mgr

\* SingleBrowserManager.closeAll: closes a connected browser; an error of
\* browser.close is logged and swallowed, leaving the fields as they were.
closeAll(mgr, closeOk) ==
    IF mgr.browser = "set" /\ mgr.proc = "running"
    THEN IF closeOk
         THEN [browser |-> "null", proc |-> "closed", pages |-> 0,
               closeError |-> mgr.closeError]
         ELSE [mgr EXCEPT !.closeError = TRUE]
    ELSE mgr

\* Mutant: the results in the reverse of the url order.
PromiseAll_Reversed(results) ==
    [i \in 1..Len(results) |-> results[Len(results) + 1 - i]]

\* Promise.all(scrapePromises): the settled values in the order of the promises.
PromiseAll(results) == [i \in 1..Len(results) |-> results[i]]

\* Mutant: a promise whose timer fired settles only when its fetch ends.
Settled_AwaitsFetch(t) == t \in {"ok", "failed", "timedOut_done"}

Settled(t) == t \in {"ok", "failed", "timedOut_launching", "timedOut_fetching",
                     "timedOut_done"}

\* BrowserPool.getBrowser up to its first await, as every scrapeUrl of the
\* batch runs it inside urls.map: with a connected browser in the pool the
\* task gets that browser, otherwise (the pool, filtered, is below
\* maxBrowsers) it starts a launch of its own.
LegacyTaskStart(pool) ==
    IF pool > 0 THEN "fetching"
    ELSE IF pool < maxBrowsers THEN "launching" ELSE "fetching"

\* scrapeMultipleUrlsLegacy up to `await Promise.all`.
StartLegacy(path) ==
    /\ wPc' = "legacy"
    /\ wTask' = [i \in 1..Len(wUrls) |-> LegacyTaskStart(wPool)]
    /\ wResults' = [i \in 1..Len(wUrls) |-> NoResult]
    /\ wPath' = Append(path, "legacy")

\* scrapeMultipleUrls: validation and the choice of the strategy.
ScrapeBegin ==
    /\ wPc = "start"
    /\ IF Len(wUrls) = 0
       THEN /\ wPc' = "returned"
            /\ wRet' = [returned |-> TRUE, raised |-> FALSE, value |-> <<>>]
            /\ UNCHANGED <<wTask, wResults, wPath, wMgr, wPool>>
       ELSE IF Len(wUrls) <= singleBrowserLimit
            THEN /\ wPc' = "initializing"
                 /\ wPath' = Append(wPath, "optimized")
                 /\ UNCHANGED <<wTask, wResults, wRet, wMgr, wPool>>
            ELSE /\ StartLegacy(wPath)
                 /\ UNCHANGED <<wRet, wMgr, wPool>>
    /\ UNCHANGED <<wUrls, chunkVars, scoreVars, pipeVars, restVars>>

\* SingleBrowserManager.initialize succeeds; scrapeMultipleUrlsOptimized maps
\* every url to its race of scrapeWithPreCreatedPage against the timer.
\* getPage(index) throws for an index beyond the pages, inside the task's try.
InitializeOk ==
    /\ wPc = "initializing"
    /\ wPc' = "optimized"
    /\ wMgr' = [browser |-> "set", proc |-> "running",
                pages |-> Min(Len(wUrls), maxPages), closeError |-> FALSE]
    /\ wTask' = [i \in 1..Len(wUrls) |->
                    IF i - 1 >= Min(Len(wUrls), maxPages) THEN "failed" ELSE "fetching"]
    /\ wResults' = [i \in 1..Len(wUrls) |->
                    IF i - 1 >= Min(Len(wUrls), maxPages)
                    THEN createErrorResult(wUrls[i], "Page index out of range", "zero")
                    ELSE NoResult]
    /\ UNCHANGED <<wUrls, wPool, wRet, wPath, chunkVars, scoreVars, pipeVars, restVars>>

\* SingleBrowserManager.initialize throws (the launch, or the creation of a
\* page after the launch, the browser still running or gone): the finally
\* block runs closeAll and scrapeMultipleUrls falls back to
\* scrapeMultipleUrlsLegacy.
InitializeFails ==
    /\ wPc = "initializing"
    /\ \E launched \in {"none", "running", "disconnected"}, closeOk \in BOOLEAN :
          wMgr' = closeAll(IF launched # "none"
                           THEN [browser |-> "set", proc |-> launched, pages |-> 0,
                                 closeError |-> FALSE]
                           ELSE NoManager, closeOk)
    /\ StartLegacy(Append(wPath, "closeAll"))
    /\ UNCHANGED <<wUrls, wPool, wRet, chunkVars, scoreVars, pipeVars, restVars>>

\* chromium.launch of one pool task completes: the browser joins the pool.
LaunchDone(i) ==
    /\ i \in DOMAIN wTask
    /\ \/ wPc = "legacy" /\ wTask[i] = "launching"
       \/ wPc \in {"legacy", "returned"} /\ wTask[i] = "timedOut_launching"
    /\ wPool' = wPool + 1
    /\ wTask' = [wTask EXCEPT ![i] = IF wTask[i] = "launching" THEN "fetching"
                                     ELSE "timedOut_fetching"]
    /\ UNCHANGED <<wUrls, wPc, wMgr, wResults, wRet, wPath, chunkVars, scoreVars, pipeVars, restVars>>

\* The fetch of url i completes before its timer: a success result with the
\* elapsed time.
FetchOk(i) ==
    /\ wPc \in {"optimized", "legacy"}
    /\ wPc = "optimized" => wMgr.proc = "running"
    /\ wTask[i] = "fetching"
    /\ wTask' = [wTask EXCEPT ![i] = "ok"]
    /\ wResults' = [wResults EXCEPT ![i] = createSuccessResult(wUrls[i], extractMainContent(PageAt(wUrls[i])), "elapsed")]
    /\ UNCHANGED <<wUrls, wPc, wMgr, wPool, wRet, wPath, chunkVars, scoreVars, pipeVars, restVars>>

\* The fetch of url i throws (launch, page creation, navigation, extraction):
\* scrapeWithPreCreatedPage / scrapeUrl catch it and return an error result.
FetchThrows(i) ==
    /\ wPc \in {"optimized", "legacy"}
    /\ wTask[i] \in {"launching", "fetching"}
    /\ wTask' = [wTask EXCEPT ![i] = "failed"]
    /\ wResults' = [wResults EXCEPT ![i] =
                        createErrorResult(wUrls[i], "navigation failed", "elapsed")]
    /\ UNCHANGED <<wUrls, wPc, wMgr, wPool, wRet, wPath, chunkVars, scoreVars, pipeVars, restVars>>

\* The 15 s timer of url i fires first: the race rejects and the task's catch
\* block returns an error result; the fetch itself goes on in the background.
TimeoutFires(i) ==
    /\ wPc \in {"optimized", "legacy"}
    /\ i \in DOMAIN wTask
    /\ wTask[i] \in {"launching", "fetching"}
    /\ wTask' = [wTask EXCEPT ![i] = IF wTask[i] = "launching" THEN "timedOut_launching"
                                     ELSE "timedOut_fetching"]
    /\ wResults' = [wResults EXCEPT ![i] =
                        createErrorResult(wUrls[i], "Timeout after 15 seconds", "zero")]
    /\ UNCHANGED <<wUrls, wPc, wMgr, wPool, wRet, wPath, chunkVars, scoreVars, pipeVars, restVars>>

\* A fetch whose timer has fired ends in the background; its outcome is
\* dropped.  Followed for the pages of the SingleBrowserManager, which closeAll
\* may take away under it; a pool page is closed by scrapeUrl's own finally
\* block and leaves nothing behind.
BackgroundEnds(i) ==
    /\ wPc \in {"optimized", "returned"}
    /\ wPath[Len(wPath)] # "legacy"
    /\ i \in DOMAIN wTask
    /\ wTask[i] = "timedOut_fetching"
    /\ wTask' = [wTask EXCEPT ![i] = "timedOut_done"]
    /\ UNCHANGED <<wUrls, wPc, wMgr, wPool, wResults, wRet, wPath, chunkVars, scoreVars, pipeVars, restVars>>

\* scrapeMultipleUrlsOptimized after Promise.all: the results in url order,
\* then the finally block's closeAll.
OptimizedFinish ==
    /\ wPc = "optimized"
    /\ \A i \in 1..Len(wUrls) : Settled(wTask[i])
    /\ \E closeOk \in BOOLEAN : wMgr' = closeAll(wMgr, closeOk)
    /\ wRet' = [returned |-> TRUE, raised |-> FALSE,
                value |-> PromiseAll(wResults)]
    /\ wPc' = "returned"
    /\ wPath' = Append(wPath, "closeAll")
    /\ UNCHANGED <<wUrls, wPool, wTask, wResults, chunkVars, scoreVars, pipeVars, restVars>>

\* scrapeMultipleUrlsLegacy after Promise.all: the results in url order; the
\* pool keeps its browsers.
LegacyFinish ==
    /\ wPc = "legacy"
    /\ \A i \in 1..Len(wUrls) : Settled(wTask[i])
    /\ wRet' = [returned |-> TRUE, raised |-> FALSE,
                value |-> PromiseAll(wResults)]
    /\ wPc' = "returned"
    /\ UNCHANGED <<wUrls, wMgr, wPool, wTask, wResults, wPath, chunkVars, scoreVars, pipeVars, restVars>>

ScrapeIdle ==
    /\ wUrls = <<>> /\ wPc = "idle" /\ wMgr = NoManager /\ wPool = 0
    /\ wTask = <<>> /\ wResults = <<>> /\ wPath = <<>>
    /\ wRet = [returned |-> FALSE, raised |-> FALSE, value |-> <<>>]

(***************************************************************************)
(* CONTENT PROCESSOR PIPELINE                                              *)
(***************************************************************************)

MaxPipelineUrls == 5        \* urls handed to one processContent call

PipelineQueries ==
    { <<"what", "is", "http">>, <<"advanced", "react", "state", "management">> }

\* cleanContent of the content cleaner: boilerplate sentences are dropped, the
\* kept sentences are joined by '. ' and every run of whitespace becomes one
\* space, so the cleaned text is one paragraph without header lines.
cleanContent(content) ==
    [nWords |-> content.nWords - content.boiler, paraWords |-> 0,
     sentEvery |-> content.sentEvery, header |-> NoHeader]

\* The raw content handed on when the cleaning of a document fails: the
\* scraped text as it is, boilerplate included.
RawText(content) ==
    [nWords |-> content.nWords, paraWords |-> 0,
     sentEvery |-> content.sentEvery, header |-> NoHeader]

\* The document whose processing throws (index into successfulScrapes) and the
\* stage that throws; index -1 with kind "none" when nothing throws.
NoFault == [kind |-> "none", index |-> 0 - 1]
Faults(nSuccessful) ==
    {NoFault} \cup { [kind |-> k, index |-> j] :
                       k \in {"clean", "chunk"},
                       j \in { x \in {0, nSuccessful - 1} : x >= 0 /\ x < nSuccessful } }
FaultAt(fault, index) == IF fault.index = index THEN fault.kind ELSE "none"

\* Mutant: cleanMultipleContent without its per-item try/catch.
cleanMultipleContent_NoCatch(scraped, fault) ==
    IF fault = "clean"
    THEN [threw |-> TRUE, content |-> RawText(scraped.content), cleaningFailed |-> TRUE]
    ELSE [threw |-> FALSE, content |-> cleanContent(scraped.content),
          cleaningFailed |-> FALSE]

\* cleanMultipleContent, called with one item: when cleanContent throws, the
\* item's original content is pushed instead.
cleanMultipleContent(scraped, fault) ==
    IF fault = "clean"
    THEN [threw |-> FALSE, content |-> RawText(scraped.content), cleaningFailed |-> TRUE]
    ELSE [threw |-> FALSE, content |-> cleanContent(scraped.content),
          cleaningFailed |-> FALSE]

\* The texts the cleaner can hand to the chunker for the modelled pages, and
\* chunkText tabulated over them.
PipelineTexts ==
    UNION { { cleanContent(extractMainContent(PageAt(UrlAt(i)))),
              RawText(extractMainContent(PageAt(UrlAt(i)))) } :
            i \in 1..(MaxPipelineUrls + 1) }
ChunkedTexts == [text \in PipelineTexts |-> chunkText(text)]

\* Mutant: chunkMultipleTexts without its per-item try/catch.
chunkMultipleTexts_NoCatch(text, url, originalIndex, fault) ==
    [threw |-> fault = "chunk", chunks |-> <<>>, totalChunks |-> 0,
     chunkingStrategy |-> "failed"]

\* chunkMultipleTexts, called with one item: chunkText, each chunk carrying
\* its source; the id `${originalIndex}-chunk-${position}` is kept as a number.
\* When chunkText throws, the item gets the empty chunk list.
chunkMultipleTexts(text, url, originalIndex, fault) ==
    IF fault = "chunk"
    THEN [threw |-> FALSE, chunks |-> <<>>, totalChunks |-> 0,
          chunkingStrategy |-> "failed"]
    ELSE LET chunks == ChunkedTexts[text]
         IN  [threw |-> FALSE,
              chunks |->
                 [k \in 1..Len(chunks) |->
                     [id |-> originalIndex * 100 + chunks[k].position,
                      url |-> url,
                      originalIndex |-> originalIndex,
                      position |-> chunks[k].position,
                      wordCount |-> chunks[k].wordCount]],
              totalChunks |-> Len(chunks),
              chunkingStrategy |-> "smart_boundary_with_overlap"]

\* processContentPiece: clean, then chunk the cleaned text; an error thrown by
\* either batch function is caught and the piece is marked unsuccessful.
processContentPiece(scraped, index, fault) ==
    LET cleanedResult == cleanMultipleContent(scraped, fault)
        chunkedResult == chunkMultipleTexts(cleanedResult.content, scraped.url, index, fault)
    IN  IF cleanedResult.threw \/ chunkedResult.threw
        THEN [url |-> scraped.url, cleaned |-> cleanedResult, chunked |-> chunkedResult,
              success |-> FALSE]
        ELSE [url |-> scraped.url, cleaned |-> cleanedResult, chunked |-> chunkedResult,
              success |-> TRUE]

RECURSIVE FlatMapChunks(_)
FlatMapChunks(chunkedResults) ==
    IF chunkedResults = <<>> THEN <<>>
    ELSE Head(chunkedResults).chunks \o FlatMapChunks(Tail(chunkedResults))

IsSuccess(result) == result.success
IsFailure(result) == ~result.success

successfulScrapes(scrapedResults) == SelectSeq(scrapedResults, IsSuccess)
failedScrapes(scrapedResults) == SelectSeq(scrapedResults, IsFailure)

\* processContent, stages 2 and 3: every successful scrape is cleaned and
\* chunked.
processingResults(scrapedResults, fault) ==
    LET successful == successfulScrapes(scrapedResults)
    IN  [i \in 1..Len(successful) |->
            processContentPiece(successful[i], i - 1, FaultAt(fault, i - 1))]

\* cleanedResults / chunkedResults: the results of the successful pieces.
cleanedResults(pieces) ==
    LET ok == SelectSeq(pieces, IsSuccess) IN [i \in 1..Len(ok) |-> ok[i].cleaned]

\* Mutant: the chunking results in the order of completion, last piece first.
chunkedResults_CompletionOrder(pieces) ==
    LET ok == SelectSeq(pieces, IsSuccess)
    IN  [i \in 1..Len(ok) |-> ok[Len(ok) + 1 - i].chunked]

chunkedResults(pieces) ==
    LET ok == SelectSeq(pieces, IsSuccess) IN [i \in 1..Len(ok) |-> ok[i].chunked]

\* allChunks: the chunks of the successful pieces, flattened in source order.
allChunks(pieces) == FlatMapChunks(chunkedResults(pieces))

\* Mutant: failedUrls counted from the urls that produced no chunk.
failedUrls_NoChunks(urls, scrapedResults, chunks) ==
    Cardinality({ i \in 1..Len(urls) :
                    ~\E k \in 1..Len(chunks) : chunks[k].url = urls[i] })

failedUrls(urls, scrapedResults, chunks) == Len(failedScrapes(scrapedResults))

\* processContent, output assembly.
AssembleResult(urls, scrapedResults, pieces, chunks, scoring) ==
    LET topRankedChunks == scoring.rankedChunks
        successful == successfulScrapes(scrapedResults)
        \* sourceMetadata reads cleanedResults[index] and chunkedResults[index]
        \* for every index of successfulScrapes: a TypeError when one is missing.
        sourceMetadataThrows == Len(cleanedResults(pieces)) < Len(successful)
        sourceMetadata ==
            [i \in 1..Min(Len(successful), Len(cleanedResults(pieces))) |->
                [url |-> successful[i].url,
                 cleanedWordCount |-> WordsLength(cleanedResults(pieces)[i].content),
                 totalChunks |-> chunkedResults(pieces)[i].totalChunks]]
        processedContent ==
            [i \in 1..Len(topRankedChunks) |->
                [id |-> topRankedChunks[i].chunk.id,
                 url |-> topRankedChunks[i].chunk.url,
                 chunkWordCount |-> topRankedChunks[i].chunk.wordCount,
                 rank |-> topRankedChunks[i].rank,
                 finalScore |-> topRankedChunks[i].finalScore]]
    IN  IF sourceMetadataThrows
        THEN [raised |-> TRUE, processedContent |-> <<>>, sourceMetadata |-> <<>>,
              summary |-> <<>>]
        ELSE
        [raised |-> FALSE,
         processedContent |-> processedContent,
         sourceMetadata |-> sourceMetadata,
         summary |->
            [totalUrls |-> Len(urls),
             successfulUrls |-> Len(successfulScrapes(scrapedResults)),
             failedUrls |-> failedUrls(urls, scrapedResults, chunks),
             totalChunks |-> Len(chunks),
             selectedChunks |-> Len(topRankedChunks),
             finalSelectedWords |->
                 SumSeq([i \in 1..Len(processedContent) |->
                            processedContent[i].chunkWordCount]),
             averageRelevanceScore |-> scoring.filtering.averageRelevance,
             queryComplexity |-> scoring.queryAnalysis.complexity]]

NoOutput == [raised |-> FALSE, processedContent |-> <<>>, sourceMetadata |-> <<>>,
             summary |-> <<>>]

\* What the scoring model answers in a pipeline run: no answer, an unparsable
\* one, or an entry per chunk whose scores follow a repeating pattern.
ReplyPatterns ==
    { <<[relevanceScore |-> RawNumber(900), qualityScore |-> RawNumber(900)]>>,
      <<[relevanceScore |-> RawNumber(500), qualityScore |-> RawNumber(500)]>>,
      <<[relevanceScore |-> RawNumber(900), qualityScore |-> RawNumber(900)],
        [relevanceScore |-> RawNumber(200), qualityScore |-> RawNumber(900)]>>,
      <<[relevanceScore |-> RawNumber(1500), qualityScore |-> RawUndefined],
        [relevanceScore |-> RawNumber(900), qualityScore |-> RawNumber(700)]>> }

PipelineReplies(n) ==
    { [outcome |-> "raise", scores |-> <<>>],
      [outcome |-> "unparsable", scores |-> <<>>] }
    \cup
    { [outcome |-> "ok",
       scores |-> [ i \in 1..n |->
                      [ chunkIndex |-> i,
                        relevanceScore |-> pat[((i - 1) % Len(pat)) + 1].relevanceScore,
                        qualityScore |-> pat[((i - 1) % Len(pat)) + 1].qualityScore ] ] ] :
        pat \in ReplyPatterns }

\* processContent up to `await scrapeMultipleUrls(urls)`.
ProcessBegin ==
    /\ pPc = "ready"
    /\ pPc' = "scraping"
    /\ wUrls' = pUrls
    /\ wPc' = "start"
    /\ UNCHANGED <<pUrls, pQuery, pFault, pPieces, pChunks, pOut, wMgr, wPool, wTask, wResults, wRet,
                   wPath, chunkVars, scoreVars, restVars>>

\* processContent from the scrape results up to `await scoreAndFilterChunks`.
ProcessScraped ==
    /\ pPc = "scraping"
    /\ wRet.returned
    /\ \E fault \in Faults(Len(successfulScrapes(wRet.value))) :
          LET pieces == processingResults(wRet.value, fault)
          IN  /\ pFault' = fault
              /\ pPieces' = pieces
              /\ pChunks' = allChunks(pieces)
    /\ pPc' = "scoring"
    /\ UNCHANGED <<pUrls, pQuery, pOut, scrapeVars, chunkVars, scoreVars, restVars>>

\* processContent from the scoring result to its return; an error of the
\* scorer is rethrown.
ProcessScored ==
    /\ pPc = "scoring"
    /\ \E reply \in PipelineReplies(Len(pChunks)) :
          LET scoring == scoreAndFilterChunks(pChunks, pQuery, reply)
          IN  pOut' = IF scoring.threw
                      THEN [NoOutput EXCEPT !.raised = TRUE]
                      ELSE AssembleResult(pUrls, wRet.value, pPieces, pChunks, scoring)
    /\ pPc' = "done"
    /\ UNCHANGED <<pUrls, pQuery, pFault, pPieces, pChunks, scrapeVars, chunkVars, scoreVars, restVars>>

PipeIdle ==
    pUrls = <<>> /\ pQuery = <<>> /\ pPc = "idle" /\ pFault = NoFault /\ pPieces = <<>>
    /\ pChunks = <<>> /\ pOut = NoOutput

(***************************************************************************)
(* SINGLE BROWSER MANAGER                                                  *)
(***************************************************************************)

MaxCloseCalls == 3          \* closeAll calls followed on one manager

\* Mutant: closeAll without its try/catch around browser.close.
CloseAllRaises_NoCatch(mgr, closeOk) ==
    mgr.browser = "set" /\ mgr.proc = "running" /\ ~closeOk

\* Whether closeAll raises: its only statement that can throw, browser.close,
\* sits in a try block whose handler logs the error.
CloseAllRaises(mgr, closeOk) == FALSE

\* SingleBrowserManager.initialize(urlCount) completes.
ManagerInitialize ==
    /\ wMgr.browser = "null"
    /\ \E urlCount \in 1..MaxUrls :
          wMgr' = [browser |-> "set", proc |-> "running",
                   pages |-> Min(urlCount, maxPages), closeError |-> FALSE]
    /\ UNCHANGED <<wUrls, wPc, wPool, wTask, wResults, wRet, wPath,
                   chunkVars, scoreVars, pipeVars, restVars>>

\* SingleBrowserManager.initialize throws after the launch: the browser is
\* set, no page is stored.
ManagerInitializeFails ==
    /\ wMgr.browser = "null"
    /\ wMgr' = [browser |-> "set", proc |-> "running", pages |-> 0,
                closeError |-> FALSE]
    /\ UNCHANGED <<wUrls, wPc, wPool, wTask, wResults, wRet, wPath,
                   chunkVars, scoreVars, pipeVars, restVars>>

\* The browser process dies or is disconnected: isConnected() turns false.
BrowserDisconnects ==
    /\ wMgr.proc = "running"
    /\ wMgr' = [wMgr EXCEPT !.proc = "disconnected"]
    /\ UNCHANGED <<wUrls, wPc, wPool, wTask, wResults, wRet, wPath,
                   chunkVars, scoreVars, pipeVars, restVars>>

\* One call of SingleBrowserManager.closeAll.
CloseAllCall ==
    /\ mCalls < MaxCloseCalls
    /\ \E closeOk \in BOOLEAN :
          /\ wMgr' = closeAll(wMgr, closeOk)
          /\ mRaised' = (mRaised \/ CloseAllRaises(wMgr, closeOk))
    /\ mPrev' = wMgr
    /\ mPost' = wMgr'
    /\ mCalls' = mCalls + 1
    /\ UNCHANGED <<wUrls, wPc, wPool, wTask, wResults, wRet, wPath,
                   chunkVars, scoreVars, pipeVars, exceptMgrVars>>

ManagerIdle == mCalls = 0 /\ mRaised = FALSE /\ mPrev = NoManager /\ mPost = NoManager

(***************************************************************************)
(* Streaming requests: ResearchAgent.researchWithStreaming and the         *)
(* callbacks processContent invokes.  The agent is one exported instance;  *)
(* every request handler calls it, and each call awaits agent.invoke, so   *)
(* calls interleave at their awaits.                                       *)
(***************************************************************************)

MaxRequests == 2            \* streaming requests that may overlap

Requests == 1..MaxRequests

undefined == 0              \* the empty callbacks slot; request r registers callbacks r

ProgressEvents == {"onScrapingStart", "onProcessingStart", "onAnalysisStart"}

\* processContent reads the callbacks from the process-wide slot, once, at
\* its start.
ReadCallbacks(r, slot) == slot

\* callbacks?.onX(...): the invocation made when the run of request r reaches
\* a stage boundary; nothing is invoked when the callbacks are undefined.
Emit(r, cb, event) == delivered \cup {[run |-> r, to |-> cb, event |-> event]}

\* researchWithStreaming up to its await: the request's callbacks are stored
\* in the global slot and the agent is invoked.
StreamBegin(r) ==
    /\ qPc[r] = "idle"
    /\ streamingCallbacks' = r
    /\ qPc' = [qPc EXCEPT ![r] = "invoking"]
    /\ UNCHANGED <<callbacks, delivered, chunkVars, scoreVars, scrapeVars, pipeVars, exceptStreamVars>>

\* The agent calls the content_processor tool: processContent reads the slot
\* and emits onScrapingStart.
ToolScrapingStart(r) ==
    /\ qPc[r] = "invoking"
    /\ callbacks' = [callbacks EXCEPT ![r] = ReadCallbacks(r, streamingCallbacks)]
    /\ delivered' = Emit(r, callbacks'[r], "onScrapingStart")
    /\ qPc' = [qPc EXCEPT ![r] = "scraping"]
    /\ UNCHANGED <<streamingCallbacks, chunkVars, scoreVars, scrapeVars, pipeVars, exceptStreamVars>>

\* scrapeMultipleUrls has returned: onProcessingStart.
ToolProcessingStart(r) ==
    /\ qPc[r] = "scraping"
    /\ delivered' = Emit(r, callbacks[r], "onProcessingStart")
    /\ qPc' = [qPc EXCEPT ![r] = "processing"]
    /\ UNCHANGED <<streamingCallbacks, callbacks, chunkVars, scoreVars, scrapeVars, pipeVars, exceptStreamVars>>

\* Cleaning and chunking are done: onAnalysisStart.
ToolAnalysisStart(r) ==
    /\ qPc[r] = "processing"
    /\ delivered' = Emit(r, callbacks[r], "onAnalysisStart")
    /\ qPc' = [qPc EXCEPT ![r] = "analysis"]
    /\ UNCHANGED <<streamingCallbacks, callbacks, chunkVars, scoreVars, scrapeVars, pipeVars, exceptStreamVars>>

\* agent.invoke resolves, with or without a tool run behind it: the slot is
\* cleared, whoever wrote it last.
StreamEnd(r) ==
    /\ qPc[r] \in {"invoking", "analysis"}
    /\ streamingCallbacks' = undefined
    /\ qPc' = [qPc EXCEPT ![r] = "done"]
    /\ UNCHANGED <<callbacks, delivered, chunkVars, scoreVars, scrapeVars, pipeVars, exceptStreamVars>>

\* agent.invoke rejects: the catch block reports through the request's own
\* callbacks and leaves the slot as it is.
StreamFails(r) ==
    /\ qPc[r] \in {"invoking", "analysis"}
    /\ delivered' = delivered \cup {[run |-> r, to |-> r, event |-> "onError"]}
    /\ qPc' = [qPc EXCEPT ![r] = "failed"]
    /\ UNCHANGED <<streamingCallbacks, callbacks, chunkVars, scoreVars, scrapeVars, pipeVars, exceptStreamVars>>

StreamIdle ==
    /\ streamingCallbacks = undefined
    /\ callbacks = [r \in Requests |-> undefined]
    /\ qPc = [r \in Requests |-> "idle"]
    /\ delivered = {}

\* No scoring call has been made.
InvokeIdle == invoked = <<>>

\* validateAndOptimizeChunks and extractMainContent have not been called on
\* their own.
ValidateIdle == vChunks = <<>> /\ vOut = <<>> /\ vPc = "idle"

ExtractIdle == xDom = <<>> /\ xOut = NoText /\ xPc = "idle"

\* ---- chunker specification ----

ChunkIdle == cDoc = [nWords |-> 0, paraWords |-> 0, sentEvery |-> 0, header |-> NoHeader]
             /\ cOut = <<>> /\ cPc = "idle"

ScoreIdle == sChunks = <<>> /\ sQuery = <<>> /\ sReply = [outcome |-> "raise", scores |-> <<>>]
             /\ sOut = <<>> /\ sPc = "idle"

InitChunk == cDoc \in Documents /\ cOut = <<>> /\ cPc = "ready" /\ ScoreIdle /\ ScrapeIdle /\ PipeIdle
             /\ ManagerIdle /\ StreamIdle /\ InvokeIdle /\ ValidateIdle /\ ExtractIdle

\* One call of chunkText on the document.
ChunkText ==
    /\ cPc = "ready"
    /\ cOut' = chunkText(cDoc)
    /\ cPc' = "done"
    /\ UNCHANGED <<cDoc, scoreVars, scrapeVars, pipeVars, restVars>>

NextChunk == ChunkText

vars == <<chunkVars, scoreVars, scrapeVars, pipeVars, restVars>>

SpecChunk == InitChunk /\ [][NextChunk]_vars

\* C1: chunkText returns at least one chunk for every input that contains at
\* least one word, also when it is shorter than minChunkSize or no longer
\* than targetChunkSize.
C1_AtLeastOneChunk ==
    (cPc = "done" /\ cDoc.nWords >= 1) => Len(cOut) >= 1

\* ---- scorer specification ----

InitScore ==
    /\ ChunkIdle
    /\ ManagerIdle /\ StreamIdle /\ InvokeIdle /\ ValidateIdle /\ ExtractIdle
    /\ ScrapeIdle
    /\ PipeIdle
    /\ sChunks \in ChunkLists
    /\ sQuery \in Queries
    /\ sReply \in Replies(Len(sChunks))
    /\ sOut = <<>>
    /\ sPc = "ready"

\* One call of scoreAndFilterChunks.
ScoreAndFilter ==
    /\ sPc = "ready"
    /\ sOut' = scoreAndFilterChunks(sChunks, sQuery, sReply)
    /\ sPc' = "done"
    /\ UNCHANGED <<sChunks, sQuery, sReply, chunkVars, scrapeVars, pipeVars, restVars>>

NextScore == ScoreAndFilter

SpecScore == InitScore /\ [][NextScore]_vars

\* ---- scorer properties ----

ScoreDone == sPc = "done" /\ ~sOut.threw
Returned == sOut.rankedChunks
ReturnedIds == { Returned[i].chunk.id : i \in 1..Len(Returned) }
PassingIds == { sOut.scored[i].chunk.id :
                  i \in { k \in 1..Len(sOut.scored) : PassesThresholds(sOut.scored[k]) } }
QueryCap == ChunkLimit(sOut.queryAnalysis.complexity)

C5_ReturnedPassThresholds ==
    ScoreDone =>
        \A i \in 1..Len(Returned) :
            /\ Returned[i].relevanceScore >= minimumRelevance
            /\ Returned[i].qualityScore >= minimumQuality
            /\ Returned[i].finalScore >= minimumFinalScore

C5_Witness ==
    /\ ScoreDone /\ sReply.outcome = "ok"
    /\ Len(Returned) >= 1
    /\ \E i \in 1..Len(sOut.scored) :
          /\ sOut.scored[i].relevanceScore >= minimumRelevance
          /\ sOut.scored[i].qualityScore >= minimumQuality
          /\ sOut.scored[i].finalScore < minimumFinalScore
          /\ sOut.scored[i].finalScore # NaN

\* C6 as stated: every input chunk that is not returned fails at least one of
\* the three thresholds.
C6_ExcludedFailThreshold ==
    ScoreDone =>
        \A i \in 1..Len(sOut.scored) :
            sOut.scored[i].chunk.id \notin ReturnedIds => ~PassesThresholds(sOut.scored[i])

\* C6 as amended: every input chunk that is not returned either fails one of
\* the three pass conditions, or passes them and was cut by the complexity cap:
\* the returned list then holds exactly cap chunks, none with a smaller
\* finalScore than the chunk cut.
C6_ExcludedFailThresholdOrCap ==
    ScoreDone =>
        \A i \in 1..Len(sOut.scored) :
            sOut.scored[i].chunk.id \notin ReturnedIds =>
                \/ ~PassesThresholds(sOut.scored[i])
                \/ /\ Len(Returned) = QueryCap
                   /\ \A k \in 1..Len(Returned) :
                         Returned[k].finalScore >= sOut.scored[i].finalScore

C6_Witness ==
    /\ ScoreDone
    /\ \E i \in 1..Len(sOut.scored) :
          sOut.scored[i].chunk.id \notin ReturnedIds /\ PassesThresholds(sOut.scored[i])
    /\ \E i \in 1..Len(sOut.scored) :
          sOut.scored[i].chunk.id \notin ReturnedIds /\ ~PassesThresholds(sOut.scored[i])

\* C7: the number of returned chunks never exceeds 3 for a simple query
\* (shorter than 30 characters, at most 2 key terms), 5 for a complex query
\* (longer than 80 characters, more than 5 key terms, or a marker word), and 4
\* for any other query.
C7_CapEnforced ==
    ScoreDone =>
        LET simple == QueryLength(sQuery) < 30
                      /\ Cardinality(extractKeyTermsFromQuery(sQuery)) <= 2
            complex == \/ QueryLength(sQuery) > 80
                       \/ Cardinality(extractKeyTermsFromQuery(sQuery)) > 5
                       \/ HasComplexityMarker(sQuery)
        IN  /\ simple => Len(Returned) <= 3
            /\ complex => Len(Returned) <= 5
            /\ (~simple /\ ~complex) => Len(Returned) <= 4

C7_Witness ==
    /\ ScoreDone
    /\ sOut.queryAnalysis.complexity = "moderate"
    /\ Cardinality(PassingIds) > 4
    /\ Len(Returned) = 4

\* C8: the ranks of the returned chunks are exactly 1..N, N the number
\* returned, without duplicate or gap, also after the cap removed chunks.
C8_RanksDense ==
    ScoreDone =>
        /\ { Returned[i].rank : i \in 1..Len(Returned) } = 1..Len(Returned)
        /\ \A i, j \in 1..Len(Returned) : i # j => Returned[i].rank # Returned[j].rank

C8_Witness ==
    /\ ScoreDone
    /\ Len(Returned) >= 3
    /\ Cardinality(PassingIds) > Len(Returned)

\* C9: among the returned chunks a smaller rank never goes with a smaller
\* finalScore, and chunks of equal finalScore keep their input order.
C9_SortedStable ==
    ScoreDone =>
        \A i, j \in 1..Len(Returned) :
            Returned[i].rank < Returned[j].rank =>
                /\ Returned[i].finalScore >= Returned[j].finalScore
                /\ (Returned[i].finalScore = Returned[j].finalScore
                        => Returned[i].chunk.id < Returned[j].chunk.id)

C9_Witness ==
    /\ ScoreDone
    /\ \E i, j \in 1..Len(Returned) :
          /\ Returned[i].rank < Returned[j].rank
          /\ Returned[i].finalScore = Returned[j].finalScore
    /\ \E i, j \in 1..Len(Returned) :
          /\ Returned[i].rank < Returned[j].rank
          /\ Returned[i].chunk.id > Returned[j].chunk.id

\* C10: relevanceScore, qualityScore and finalScore of every chunk carried
\* through scoring lie in [0, 1], whatever the external scorer returned.
InUnitRange(x) == x # NaN /\ 0 <= x /\ x <= 1000

C10_ScoresInRange ==
    ScoreDone =>
        \A i \in 1..Len(sOut.scored) :
            /\ InUnitRange(sOut.scored[i].relevanceScore)
            /\ InUnitRange(sOut.scored[i].qualityScore)
            /\ InUnitRange(sOut.scored[i].finalScore)

\* C11: when the chunk list is empty or no scored chunk clears the three
\* thresholds, scoreAndFilterChunks returns without raising, with
\* rankedChunks = [], filtering.filteredChunks = 0 and averageRelevance = 0.
C11_EmptyResultWhenNonePass ==
    (sPc = "done" /\ PassingIds = {}) =>
        /\ ~sOut.threw
        /\ sOut.rankedChunks = <<>>
        /\ sOut.filtering.filteredChunks = 0
        /\ sOut.filtering.averageRelevance = 0

\* A scored run over several chunks none of which clears the thresholds.
C11_Witness ==
    /\ sPc = "done" /\ ~sOut.threw
    /\ sReply.outcome = "ok"
    /\ Len(sChunks) >= 3
    /\ Len(sOut.scored) = Len(sChunks)
    /\ PassingIds = {}
    /\ sOut.rankedChunks = <<>>

\* The empty chunk list: no scoring call is made and the result is empty.
C11_WitnessEmptyInput ==
    /\ sPc = "done" /\ ~sOut.threw /\ sChunks = <<>> /\ sOut.rankedChunks = <<>>

\* ---- scraper specification ----

\* The browsers the pool holds from earlier calls when a call starts.
PoolBefore == {0, 1}

InitScrape ==
    /\ ChunkIdle
    /\ ManagerIdle /\ StreamIdle /\ InvokeIdle /\ ValidateIdle /\ ExtractIdle
    /\ ScoreIdle
    /\ PipeIdle
    /\ wUrls \in { [i \in 1..n |-> UrlAt(i)] : n \in 0..MaxUrls }
    /\ wPc = "start"
    /\ wMgr = NoManager
    /\ wPool \in PoolBefore
    /\ wTask = <<>> /\ wResults = <<>> /\ wPath = <<>>
    /\ wRet = [returned |-> FALSE, raised |-> FALSE, value |-> <<>>]

NextScrape ==
    \/ ScrapeBegin
    \/ InitializeOk
    \/ InitializeFails
    \/ \E i \in 1..Len(wUrls) : LaunchDone(i)
    \/ \E i \in 1..Len(wUrls) : FetchOk(i)
    \/ \E i \in 1..Len(wUrls) : FetchThrows(i)
    \/ \E i \in 1..Len(wUrls) : TimeoutFires(i)
    \/ \E i \in 1..Len(wUrls) : BackgroundEnds(i)
    \/ (wPc = "optimized" /\ BrowserDisconnects)
    \/ OptimizedFinish
    \/ LegacyFinish

SpecScrape == InitScrape /\ [][NextScrape]_vars

\* ---- scraper properties ----

FetchFailed(i) ==
    wTask[i] \in {"failed", "timedOut_launching", "timedOut_fetching", "timedOut_done"}

\* C2: once scrapeMultipleUrls has returned, it has not raised, its value holds
\* one result per input url in input order with result i carrying urls[i];
\* every url whose fetch threw or timed out has success = false, empty content
\* and a non-empty error message, and every url whose fetch completed carries
\* the success result of its own page.
C2_OneResultPerUrl ==
    wRet.returned =>
        /\ ~wRet.raised
        /\ Len(wRet.value) = Len(wUrls)
        /\ \A i \in 1..Len(wUrls) :
              /\ wRet.value[i].url = wUrls[i]
              /\ FetchFailed(i) =>
                    /\ wRet.value[i].success = FALSE
                    /\ wRet.value[i].content = EmptyContent
                    /\ wRet.value[i].error # ""
              /\ wTask[i] = "ok" =>
                    wRet.value[i] = createSuccessResult(wUrls[i],
                                        extractMainContent(PageAt(wUrls[i])), "elapsed")

\* A returned batch of at least three urls in which one fetch threw, one timed
\* out and one completed.
C2_Witness ==
    /\ wRet.returned
    /\ Len(wUrls) >= 3
    /\ \E i, j, k \in 1..Len(wUrls) :
          /\ wTask[i] = "failed"
          /\ wTask[j] \in {"timedOut_fetching", "timedOut_done"}
          /\ wTask[k] = "ok"
          /\ wRet.value[k].success

\* ---- pipeline specification ----

InitPipeline ==
    /\ ChunkIdle
    /\ ManagerIdle /\ StreamIdle /\ InvokeIdle /\ ValidateIdle /\ ExtractIdle
    /\ ScoreIdle
    /\ ScrapeIdle
    /\ pUrls \in { [i \in 1..n |-> UrlAt(i)] : n \in 0..MaxPipelineUrls }
    /\ pQuery \in PipelineQueries
    /\ pPc = "ready"
    /\ pFault = NoFault
    /\ pPieces = <<>>
    /\ pChunks = <<>>
    /\ pOut = NoOutput

NextPipeline ==
    \/ ProcessBegin
    \/ NextScrape
    \/ ProcessScraped
    \/ ProcessScored

SpecPipeline == InitPipeline /\ [][NextPipeline]_vars

\* ---- pipeline properties ----

PipelineDone == pPc = "done" /\ ~pOut.raised

\* C3: in the result of every processContent run, successfulUrls + failedUrls
\* = totalUrls = the number of input urls, failedUrls is the number of urls
\* whose fetch threw or timed out, and every returned chunk carries the url of
\* a document whose fetch completed.
C3_SummaryCounts ==
    PipelineDone =>
        /\ pOut.summary.successfulUrls + pOut.summary.failedUrls = pOut.summary.totalUrls
        /\ pOut.summary.totalUrls = Len(pUrls)
        /\ pOut.summary.failedUrls = Cardinality({ i \in 1..Len(pUrls) : FetchFailed(i) })
        /\ \A k \in 1..Len(pOut.processedContent) :
              \E i \in 1..Len(pUrls) :
                  /\ pUrls[i] = pOut.processedContent[k].url
                  /\ wTask[i] = "ok"

\* Five urls of which two failed to fetch: three succeeded, two failed, and
\* chunks were returned.
C3_Witness ==
    /\ PipelineDone
    /\ Len(pUrls) = 5
    /\ Cardinality({ i \in 1..Len(pUrls) : FetchFailed(i) }) = 2
    /\ pOut.summary.successfulUrls = 3
    /\ pOut.summary.failedUrls = 2
    /\ Len(pOut.processedContent) >= 1

ChunkIdsOf(chunks) == { chunks[k].id : k \in 1..Len(chunks) }

\* C12: when the cleaning or the chunking of one document throws,
\* processContent does not raise; after a cleaning failure the document is
\* chunked from its raw content, after a chunking failure it contributes no
\* chunk, every other document is cleaned and chunked as without the failure,
\* and all their chunks are among the chunks handed to the scorer.
C12_PieceFailureContained ==
    (pPc = "done" /\ pFault.kind # "none") =>
        LET successful == successfulScrapes(wRet.value)
            j == pFault.index + 1
        IN  /\ ~pOut.raised
            /\ Len(pPieces) = Len(successful)
            /\ Len(pOut.sourceMetadata) = Len(successful)
            /\ pFault.kind = "clean" =>
                  /\ pPieces[j].cleaned.content = RawText(successful[j].content)
                  /\ pPieces[j].chunked.totalChunks
                        = Len(ChunkedTexts[RawText(successful[j].content)])
            /\ pFault.kind = "chunk" =>
                  /\ pPieces[j].chunked.chunks = <<>>
                  /\ \A k \in 1..Len(pChunks) : pChunks[k].originalIndex # pFault.index
            /\ \A i \in 1..Len(successful) : i # j =>
                  /\ pPieces[i].cleaned.content = cleanContent(successful[i].content)
                  /\ pPieces[i].chunked.totalChunks
                        = Len(ChunkedTexts[cleanContent(successful[i].content)])
                  /\ ChunkIdsOf(pPieces[i].chunked.chunks) \subseteq ChunkIdsOf(pChunks)
            /\ pOut.summary.totalChunks = Len(pChunks)
            /\ ChunkIdsOf(pOut.processedContent) \subseteq ChunkIdsOf(pChunks)

\* A run in which the cleaning of one document threw and chunks of another
\* document were returned.
C12_Witness ==
    /\ pPc = "done" /\ ~pOut.raised
    /\ pFault.kind = "clean"
    /\ Len(pPieces) >= 3
    /\ pPieces[pFault.index + 1].cleaned.cleaningFailed
    /\ \E k \in 1..Len(pOut.processedContent) :
          pOut.processedContent[k].id \div 100 # pFault.index

\* A run in which the chunking of one document threw and chunks of another
\* document were returned.
C12_WitnessChunking ==
    /\ pPc = "done" /\ ~pOut.raised
    /\ pFault.kind = "chunk"
    /\ Len(pPieces) >= 3
    /\ pPieces[pFault.index + 1].chunked.chunkingStrategy = "failed"
    /\ Len(pOut.processedContent) >= 1

\* ---- chunker properties ----

\* C13: among the chunks chunkText returns for one document, every chunk
\* except the last has minChunkSize <= wordCount <= maxChunkSize.
C13_ChunkSizeBounds ==
    cPc = "done" =>
        \A i \in 1..(Len(cOut) - 1) :
            /\ cOut[i].wordCount >= minChunkSize
            /\ cOut[i].wordCount <= maxChunkSize

\* A document chunked into at least three chunks.
C13_Witness ==
    /\ cPc = "done"
    /\ Len(cOut) >= 3
    /\ \E i \in 1..(Len(cOut) - 1) : cOut[i].hasOverlap

\* ---- scraper properties: strategy ----

StrategyOnce ==
    /\ wPc = "optimized" =>
          /\ Len(wUrls) \in 1..singleBrowserLimit
          /\ wPath = <<"optimized">>
          /\ wMgr.browser = "set" /\ wMgr.proc \in {"running", "disconnected"}
          /\ wMgr.pages = Len(wUrls)
    /\ (wPc = "legacy" /\ Len(wUrls) > singleBrowserLimit) => wPath = <<"legacy">>
    /\ (wPc = "legacy" /\ Len(wUrls) <= singleBrowserLimit) =>
          wPath = <<"optimized", "closeAll", "legacy">>
    /\ wRet.returned =>
          /\ Len(wRet.value) = Len(wUrls)
          /\ Len(wUrls) = 0 => wPath = <<>>
          /\ Len(wUrls) > singleBrowserLimit => wPath = <<"legacy">>
          /\ Len(wUrls) \in 1..singleBrowserLimit =>
                wPath \in { <<"optimized", "closeAll">>,
                            <<"optimized", "closeAll", "legacy">> }

FellBack == wPath = <<"optimized", "closeAll", "legacy">>

C15_PoolBounded == wPool <= maxBrowsers

\* ---- manager specification ----

InitManager ==
    /\ ChunkIdle
    /\ ScoreIdle
    /\ ScrapeIdle
    /\ PipeIdle
    /\ ManagerIdle /\ StreamIdle /\ InvokeIdle /\ ValidateIdle /\ ExtractIdle

NextManager ==
    \/ ManagerInitialize
    \/ ManagerInitializeFails
    \/ BrowserDisconnects
    \/ CloseAllCall

SpecManager == InitManager /\ [][NextManager]_vars

MaxLiveUrls == 3            \* urls of a batch followed to its return

InitLiveScrape ==
    /\ ChunkIdle
    /\ ManagerIdle /\ StreamIdle /\ InvokeIdle /\ ValidateIdle /\ ExtractIdle
    /\ ScoreIdle
    /\ PipeIdle
    /\ wUrls \in { [i \in 1..n |-> UrlAt(i)] : n \in 1..MaxLiveUrls }
    /\ wPc = "start"
    /\ wMgr = NoManager
    /\ wPool = 0
    /\ wTask = <<>> /\ wResults = <<>> /\ wPath = <<>>
    /\ wRet = [returned |-> FALSE, raised |-> FALSE, value |-> <<>>]

\* The event loop runs every continuation that is ready and every timer that
\* is due; the launch of the manager's browser ends one way or the other.  A
\* fetch, or the launch of a pool browser, need never end.
LiveScrape ==
    /\ InitLiveScrape
    /\ [][NextScrape]_vars
    /\ WF_vars(ScrapeBegin)
    /\ WF_vars(InitializeOk \/ InitializeFails)
    /\ \A i \in 1..MaxLiveUrls : WF_vars(TimeoutFires(i))
    /\ WF_vars(OptimizedFinish)
    /\ WF_vars(LegacyFinish)

TimedOut(i) == wTask[i] \in {"timedOut_launching", "timedOut_fetching", "timedOut_done"}

ReturnedWithTimeouts ==
    /\ wRet.returned
    /\ Len(wRet.value) = Len(wUrls)
    /\ \A i \in 1..Len(wUrls) :
          /\ TimedOut(i) =>
                wRet.value[i] = createErrorResult(wUrls[i], "Timeout after 15 seconds", "zero")
          /\ wTask[i] = "ok" => wRet.value[i].success

\* C17: every call of scrapeMultipleUrls eventually returns, also when the
\* fetch of some url never completes; a url whose timer fired carries the
\* timeout failure and the other urls carry their own results.
C17_EventuallyReturns == (wPc = "start") ~> ReturnedWithTimeouts

\* A returned batch in which the fetch of one url is still running after its
\* timer fired, while another url was fetched.
C17_Witness ==
    /\ wRet.returned
    /\ \E i, k \in 1..Len(wUrls) :
          /\ wTask[i] = "timedOut_fetching"
          /\ ~wRet.value[i].success
          /\ wTask[k] = "ok"

\* ---- scraper properties: teardown ----

\* C18: closeAll is never executed on the manager's browser while a fetch is
\* still operating on one of its pages, a fetch whose timer has fired included.
C18_NoTeardownDuringFetch ==
    (wPc = "returned" /\ wPath # <<>> /\ wPath[Len(wPath)] = "closeAll") =>
        \A i \in 1..Len(wUrls) : wTask[i] # "timedOut_fetching"

\* ---- streaming specification ----

InitStreaming ==
    /\ ChunkIdle
    /\ ScoreIdle
    /\ ScrapeIdle
    /\ PipeIdle
    /\ ManagerIdle /\ StreamIdle /\ InvokeIdle /\ ValidateIdle /\ ExtractIdle

NextStreaming ==
    \E r \in Requests :
        \/ StreamBegin(r)
        \/ ToolScrapingStart(r)
        \/ ToolProcessingStart(r)
        \/ ToolAnalysisStart(r)
        \/ StreamEnd(r)
        \/ StreamFails(r)

SpecStreaming == InitStreaming /\ [][NextStreaming]_vars

\* C19: every progress callback a request's pipeline run invokes is one that
\* same request registered; none goes to another request and none is dropped.
C19_CallbacksOfOwnRequest ==
    \A e \in delivered : e.event \in ProgressEvents => e.to = e.run

\* ---- scorer properties: incomplete answers ----

\* C20: a chunk the scorer's answer has no entry for, or whose entry lacks a
\* usable relevanceScore or qualityScore, gets the neutral 0.5 for that score.
C20_NeutralForMissingScore ==
    (sPc = "done" /\ sReply.outcome = "ok" /\ ~sOut.threw) =>
        \A i \in 1..Len(sChunks) :
            LET hits == { k \in 1..Len(sReply.scores) : sReply.scores[k].chunkIndex = i }
            IN  IF hits = {}
                THEN /\ sOut.scored[i].relevanceScore = 500
                     /\ sOut.scored[i].qualityScore = 500
                ELSE LET entry == sReply.scores[SetMin(hits)]
                     IN  /\ entry.relevanceScore.t # "number" =>
                                sOut.scored[i].relevanceScore = 500
                         /\ entry.qualityScore.t # "number" =>
                                sOut.scored[i].qualityScore = 500

\* ---- scoring calls specification ----

MaxPromptChunks == 10       \* chunks handed to one scoreChunksForRelevance call

batchSize == 8              \* documented: chunks per scoring call

PromptChunkLists ==
    { WithIds(LayoutChunks(counts, 1)) :
        counts \in UNION { { <<n>>, <<n - (n \div 2), n \div 2>>, [d \in 1..n |-> 1] } :
                           n \in 0..MaxPromptChunks } }

InitInvoke ==
    /\ ChunkIdle
    /\ ManagerIdle /\ StreamIdle /\ ValidateIdle /\ ExtractIdle
    /\ ScrapeIdle
    /\ PipeIdle
    /\ sChunks \in PromptChunkLists
    /\ sQuery \in PipelineQueries
    /\ sReply \in PipelineReplies(Len(sChunks))
    /\ sOut = <<>>
    /\ sPc = "ready"
    /\ invoked = <<>>

\* One call of scoreAndFilterChunks, with the scoring calls it makes.
ScoreAndFilterInvoking ==
    /\ sPc = "ready"
    /\ invoked' = InvokedPrompts(sChunks)
    /\ sOut' = scoreAndFilterChunks(sChunks, sQuery, sReply)
    /\ sPc' = "done"
    /\ UNCHANGED <<sChunks, sQuery, sReply, chunkVars, scrapeVars, pipeVars, exceptCallVars>>

NextInvoke == ScoreAndFilterInvoking

SpecInvoke == InitInvoke /\ [][NextInvoke]_vars

\* C21: no scoring call is given more than 8 chunks; more than 8 chunks go
\* out in several calls, never more than 3 of them at once.
C21_BatchesOfAtMostEight ==
    sPc = "done" =>
        /\ \A k \in 1..Len(invoked) : invoked[k] <= batchSize
        /\ SumSeq(invoked) = Len(sChunks)

\* ---- scorer properties: diversity ----

\* The number of chunks of the list that share the url.
SameSource(chunks, url) == Cardinality({ k \in 1..Len(chunks) : chunks[k].url = url })

ReturnedChunks == [ i \in 1..Len(Returned) |-> Returned[i].chunk ]

\* C22 as stated: the diversityScore of a returned chunk is
\* max(0.3, 1.0 - (n - 1) * 0.2), n counting the returned chunks of its source.
C22_DiversityOverReturned ==
    ScoreDone =>
        \A i \in 1..Len(Returned) :
            Returned[i].diversityScore =
                Max(300, 1000 - (SameSource(ReturnedChunks, Returned[i].chunk.url) - 1) * 200)

\* C22 amended: the diversityScore of a returned chunk is
\* max(0.3, 1.0 - (n - 1) * 0.2), n counting the chunks handed to
\* scoreAndFilterChunks that share its source url, returned or not.
C22_DiversityOverCandidates ==
    ScoreDone =>
        \A i \in 1..Len(Returned) :
            Returned[i].diversityScore =
                Max(300, 1000 - (SameSource(sChunks, Returned[i].chunk.url) - 1) * 200)

\* A returned chunk whose source has more chunks among the candidates than
\* among the returned ones, and a score above the floor.
C22_Witness ==
    /\ ScoreDone
    /\ \E i \in 1..Len(Returned) :
          /\ SameSource(sChunks, Returned[i].chunk.url)
                > SameSource(ReturnedChunks, Returned[i].chunk.url)
          /\ Returned[i].diversityScore > 300
          /\ Returned[i].diversityScore < 1000

\* ---- chunker properties: the end of the document ----

LastBoundary(doc) ==
    LET boundaries == findOptimalChunkBoundaries(doc)
    IN  boundaries[Len(boundaries)]

C27_ChunksCoverDocument ==
    cPc = "done" =>
        \A w \in 0..(cDoc.nWords - 1) :
            \E i \in 1..Len(cOut) : cOut[i].startIndex <= w /\ w < cOut[i].endIndex

\* ---- chunk validation specification ----

MaxValidateChunks == 3      \* chunks handed to one validateAndOptimizeChunks call

\* The word counts of the chunks explored: below minChunkSize, in range, just
\* above maxChunkSize, and above one and a half and twice maxChunkSize.
ValidateWordCounts == {120, 600, 1150, 1201, 1500, 1801, 2500}

\* Consecutive chunks of the given word counts, without overlap.
RECURSIVE ChunksOfCounts(_, _, _)
ChunksOfCounts(counts, i, start) ==
    IF i > Len(counts) THEN <<>>
    ELSE << [ position |-> i,
              wordCount |-> counts[i],
              startIndex |-> start,
              endIndex |-> start + counts[i],
              hasOverlap |-> FALSE,
              chunkingMethod |-> "word_boundary" ] >>
         \o ChunksOfCounts(counts, i + 1, start + counts[i])

ValidateInputs ==
    { ChunksOfCounts(counts, 1, 0) :
        counts \in UNION { [1..n -> ValidateWordCounts] : n \in 0..MaxValidateChunks } }

InitValidate ==
    /\ ChunkIdle
    /\ ScoreIdle
    /\ ScrapeIdle
    /\ PipeIdle
    /\ ManagerIdle /\ StreamIdle /\ InvokeIdle /\ ExtractIdle
    /\ vChunks \in ValidateInputs
    /\ vOut = <<>>
    /\ vPc = "ready"

\* One call of validateAndOptimizeChunks.
ValidateChunks ==
    /\ vPc = "ready"
    /\ vOut' = validateAndOptimizeChunks(vChunks)
    /\ vPc' = "done"
    /\ UNCHANGED <<vChunks, chunkVars, scoreVars, scrapeVars, pipeVars,
                   mgrVars, streamVars, callVars, extractVars>>

NextValidate == ValidateChunks

SpecValidate == InitValidate /\ [][NextValidate]_vars

\* The returned chunks that lie within the words of input chunk i.
PiecesOf(i) ==
    SelectSeq(vOut, LAMBDA c : /\ c.startIndex >= vChunks[i].startIndex
                               /\ c.endIndex <= vChunks[i].endIndex)

C25_ElapsedTimeRecorded ==
    wRet.returned =>
        \A i \in 1..Len(wRet.value) : wRet.value[i].scrapingTime = "elapsed"

\* ---- content extraction specification ----

\* Text lengths explored for a container (absent or empty, short, long) and
\* for the body, whose text holds the text of every element inside it.
ContainerLengths == {0, 60, 400}
BodyLengths == {0, 60, 100, 101, 400, 900}

Doms ==
    { dom \in [1..Len(CONTENT_SELECTORS) -> ContainerLengths \cup BodyLengths] :
        /\ \A k \in 1..(Len(CONTENT_SELECTORS) - 1) :
              dom[k] \in ContainerLengths /\ dom[k] <= dom[Len(CONTENT_SELECTORS)]
        /\ dom[Len(CONTENT_SELECTORS)] \in BodyLengths }

InitExtract ==
    /\ ChunkIdle
    /\ ScoreIdle
    /\ ScrapeIdle
    /\ PipeIdle
    /\ ManagerIdle /\ StreamIdle /\ InvokeIdle /\ ValidateIdle
    /\ xDom \in Doms
    /\ xOut = NoText
    /\ xPc = "ready"

\* One call of extractMainContent.
ExtractMainContent ==
    /\ xPc = "ready"
    /\ xOut' = extractMainContentText(xDom)
    /\ xPc' = "done"
    /\ UNCHANGED <<xDom, chunkVars, scoreVars, scrapeVars, pipeVars,
                   mgrVars, streamVars, callVars, validateVars>>

NextExtract == ExtractMainContent

SpecExtract == InitExtract /\ [][NextExtract]_vars

BodyIndex == Len(CONTENT_SELECTORS)

\* C26: the text returned is that of the first selector, in the fixed order,
\* whose text is longer than 100 characters; when no container before body
\* qualifies the body text is returned, so a page whose body has any text
\* never yields empty content.
C26_BodyIsLastResort ==
    xPc = "done" =>
        /\ \A k \in 1..BodyIndex :
              (xDom[k] > minimumLength /\ \A j \in 1..(k - 1) : xDom[j] <= minimumLength) => xOut = [selector |-> CONTENT_SELECTORS[k], length |-> xDom[k]]
        /\ (\A k \in 1..(BodyIndex - 1) : xDom[k] <= minimumLength) =>
              xOut.length = xDom[BodyIndex]
        /\ xDom[BodyIndex] > 0 => xOut.length > 0

\* C26 amended: the text returned is that of the first selector, body
\* included, whose text is longer than 100 characters; when none qualifies,
\* the body's text being 100 characters or shorter, the empty string is
\* returned.
C26_FirstSubstantialOrEmpty ==
    xPc = "done" =>
        /\ \A k \in 1..BodyIndex :
              (xDom[k] > minimumLength /\ \A j \in 1..(k - 1) : xDom[j] <= minimumLength)
                  => xOut = [selector |-> CONTENT_SELECTORS[k], length |-> xDom[k]]
        /\ (\A k \in 1..BodyIndex : xDom[k] <= minimumLength) => xOut = NoText

\* A page with short containers whose body is returned, ...
C26_Witness ==
    /\ xPc = "done"
    /\ \E k \in 1..(BodyIndex - 1) : xDom[k] > 0
    /\ xOut.selector = "body"

\* ... and a page with some body text for which nothing is returned.
C26_WitnessEmpty ==
    /\ xPc = "done"
    /\ xDom[BodyIndex] > 0
    /\ xOut = NoText

\* ---- scraper properties: browsers left behind ----

\* C28 as stated: when scrapeMultipleUrls returns, every browser launched
\* during the call has been closed: the manager's browser, also when
\* browser.close failed or the browser was disconnected, and the browsers the
\* call added to the pool.
C28_AllBrowsersClosed ==
    wRet.returned =>
        /\ wMgr.proc \in {"none", "closed"}
        /\ wPool \in PoolBefore

\* C28 amended: when scrapeMultipleUrls returns, closeAll has been run on the
\* manager's browser, which is closed unless browser.close failed or the
\* browser had disconnected before; the call closes no browser of the pool.
C28_ClosedUnlessCloseFails ==
    /\ [](wRet.returned =>
            \/ wMgr.proc \in {"none", "closed"}
            \/ wMgr.proc = "disconnected"
            \/ wMgr.proc = "running" /\ wMgr.closeError)
    /\ [][wPool' >= wPool]_vars

\* A returned single-browser batch whose browser was closed after every page
\* had been used.
C28_Witness ==
    /\ wRet.returned
    /\ wPath = <<"optimized", "closeAll">>
    /\ wMgr.proc = "closed"
    /\ Len(wUrls) >= 2
    /\ \A i \in 1..Len(wUrls) : wTask[i] = "ok"

\* A returned batch whose browser is still running because browser.close failed.
C28_WitnessCloseFailed ==
    /\ wRet.returned
    /\ wMgr.proc = "running"
    /\ wMgr.closeError

\* A returned pool batch that left the browsers it launched in the pool.
C28_WitnessPool ==
    /\ wRet.returned
    /\ wPath = <<"legacy">>
    /\ wPool >= 2

\* ---- streaming properties: the slot after a request ----

\* C29: once researchWithStreaming has finished, by returning or by throwing,
\* and no other streaming request is running, the process-wide callbacks slot
\* is empty, so a later pipeline run finds no callbacks of a finished request.
C29_SlotEmptyAfterRequest ==
    (/\ \E r \in Requests : qPc[r] \in {"done", "failed"}
     /\ \A r \in Requests : qPc[r] \in {"idle", "done", "failed"}) =>
        streamingCallbacks = undefined

\* ---- pipeline properties: per-source figures ----

ChunksOfUrl(chunks, url) == Cardinality({ k \in 1..Len(chunks) : chunks[k].url = url })

\* C30: entry i of sourceMetadata carries the url of the i-th successfully
\* scraped document together with the word count of that document's cleaned
\* text and the number of that document's chunks, also when the cleaning or
\* the chunking of another document failed.
C30_SourceMetadataAligned ==
    PipelineDone =>
        LET successful == successfulScrapes(wRet.value)
        IN  /\ Len(pOut.sourceMetadata) = Len(successful)
            /\ \A i \in 1..Len(successful) :
                  /\ pOut.sourceMetadata[i].url = successful[i].url
                  /\ pOut.sourceMetadata[i].cleanedWordCount =
                        WordsLength(IF FaultAt(pFault, i - 1) = "clean"
                                    THEN RawText(successful[i].content)
                                    ELSE cleanContent(successful[i].content))
                  /\ pOut.sourceMetadata[i].totalChunks
                        = ChunksOfUrl(pChunks, successful[i].url)

\* A run over at least three fetched documents with different numbers of
\* chunks, in which the processing of one of them failed.
C30_Witness ==
    /\ PipelineDone
    /\ pFault.kind # "none"
    /\ Len(pOut.sourceMetadata) >= 3
    /\ \E i, j \in 1..Len(pOut.sourceMetadata) :
          /\ i - 1 # pFault.index /\ j - 1 # pFault.index
          /\ pOut.sourceMetadata[i].totalChunks > pOut.sourceMetadata[j].totalChunks
          /\ pOut.sourceMetadata[j].totalChunks >= 1

====
